---- MODULE Spec2Model ----
(***************************************************************************)
(* Model of src/app.py (DashNBA): the cached data pipeline                 *)
(* fetch_team_stats_for_season / load_dataset, the cache-clear button and  *)
(* the filter and metric cards of main / render_metrics.                   *)
(*                                                                         *)
(* Numbers.  The float columns are held as fixed-point integers with ONE   *)
(* standing for the float 1.0, so 0.35 is 35 and the percentage 35.0 is    *)
(* 3500.  NaN is the float "not a number" pandas gives for the mean or the *)
(* max of an empty column; every comparison with NaN is false.             *)
(*                                                                         *)
(* Time.  now counts seconds.  The clock advances in steps of TickSeconds, *)
(* chosen so that the seven-day TTL is TTLTicks steps.                     *)
(***************************************************************************)
EXTENDS Integers, Sequences, FiniteSets, TLC

\* ---------------------------------------------------------------- bounds
TTLTicks == 3
MaxTime == 4
MaxFailures == 2
MaxRows == 2

\* ------------------------------------------------------------- constants
SEASONS ==
  << "2014-15", "2015-16", "2016-17", "2017-18", "2018-19",
     "2019-20", "2020-21", "2021-22", "2022-23", "2023-24" >>

CHAMPIONS_ITEMS ==
  << <<"2014-15", "Golden State Warriors">>,
     <<"2015-16", "Cleveland Cavaliers">>,
     <<"2016-17", "Golden State Warriors">>,
     <<"2017-18", "Golden State Warriors">>,
     <<"2018-19", "Toronto Raptors">>,
     <<"2019-20", "Los Angeles Lakers">>,
     <<"2020-21", "Milwaukee Bucks">>,
     <<"2021-22", "Golden State Warriors">>,
     <<"2022-23", "Denver Nuggets">>,
     <<"2023-24", "Boston Celtics">> >>

\* CHAMPIONS_DATA as a mapping (the dict), for stating properties.
CHAMPIONS_DATA ==
  [s \in {CHAMPIONS_ITEMS[k][1] : k \in 1..Len(CHAMPIONS_ITEMS)} |->
     CHAMPIONS_ITEMS[CHOOSE k \in 1..Len(CHAMPIONS_ITEMS) :
                       CHAMPIONS_ITEMS[k][1] = s][2]]

TTL == 60 * 60 * 24 * 7

TickSeconds == TTL \div TTLTicks

ONE == 100

NaN == 0 - 1

Inf == 0 - 2

NoTeam == "<NA>"

\* ------------------------------------------------------- sequence helpers
Range(f) == {f[k] : k \in DOMAIN f}

RECURSIVE Sum(_)
Sum(col) == IF col = <<>> THEN 0 ELSE Head(col) + Sum(Tail(col))

\* Series.max(): NaN on an empty column.
ColMax(col) ==
  IF col = <<>> THEN NaN
  ELSE CHOOSE m \in Range(col) : \A x \in Range(col) : x <= m

\* Series.mean(): NaN on an empty column.
ColMean(col) ==
  IF col = <<>> THEN NaN ELSE Sum(col) \div Len(col)

\* Float comparison a <= b: false when either side is NaN.
FloatLE(a, b) == a # NaN /\ b # NaN /\ a <= b

Column(df, name) == [k \in 1..Len(df) |-> df[k][name]]

RECURSIVE ConcatReversed(_)
\* Concat with each frame put in front of the earlier ones.
ConcatReversed(frames) ==
  IF frames = <<>> THEN <<>> ELSE ConcatReversed(Tail(frames)) \o Head(frames)

RECURSIVE Concat(_)
\* pd.concat(frames, ignore_index=True): the frames' rows, frame after frame.
Concat(frames) ==
  IF frames = <<>> THEN <<>> ELSE Head(frames) \o Concat(Tail(frames))

\* ------------------------------------------------------------ the provider
\* One row of LeagueDashTeamStats(...).get_data_frames()[0].
RawRow(id, team, w, fg3m, fg3a, pct, pts) ==
  [TEAM_ID |-> id, TEAM_NAME |-> team, GP |-> 82, W |-> w, L |-> 82 - w,
   FG3M |-> fg3m, FG3A |-> fg3a, FG3_PCT |-> pct, PTS |-> pts]

SeasonIndex(season) == CHOOSE k \in 1..Len(SEASONS) : SEASONS[k] = season

\* What the external provider answers for a season at time t.  The provider
\* is outside the program; its answers change with time, in shape (empty
\* table, champion present, champion row repeated, champion absent) and in
\* scale (3PT% as a fraction at even ticks, as a percentage at odd ticks).
ProviderTable(season, t) ==
  LET tick  == t \div TickSeconds
      shape == (SeasonIndex(season) + tick) % 4
      u     == IF tick % 2 = 0 THEN 1 ELSE 100
      champ == CHAMPIONS_DATA[season]
  IN  CASE shape = 0 -> << >>
        [] shape = 1 -> << RawRow(1, champ, 60, 1250, 3400, 35 * u, 11000),
                           RawRow(2, "Chicago Bulls", 30, 900, 2500, 40 * u, 10200) >>
        [] shape = 2 -> << RawRow(2, "Chicago Bulls", 41, 1000, 2500, ONE * u, 10000),
                           RawRow(1, champ, 67, 1300, 3300, 38 * u, 11500),
                           RawRow(1, champ, 67, 1310, 3300, 39 * u, 11500) >>
        [] OTHER     -> << RawRow(3, "Miami Heat", 44, 1100, 3100, 0, 10800) >>

\* --------------------------------------------- fetch_team_stats_for_season
\* The body of fetch_team_stats_for_season: the provider's table with the
\* SEASON column set to the argument.
TagSeason(raw, season) ==
  [k \in 1..Len(raw) |->
     [f \in DOMAIN raw[k] \cup {"SEASON"} |->
        IF f = "SEASON" THEN season ELSE raw[k][f]]]

\* ------------------------------------------------------------ load_dataset
keep == {"SEASON", "TEAM_NAME", "GP", "W", "L", "FG3M", "FG3A", "FG3_PCT", "PTS"}

\* df = df[keep].copy()
Project(df) == [k \in 1..Len(df) |-> [f \in keep |-> df[k][f]]]

\* NormalizeColumn deciding row by row instead of on the column's maximum.
NormalizeColumnPerRow(col) ==
  [k \in 1..Len(col) |-> IF FloatLE(col[k], ONE) THEN col[k] * 100 ELSE col[k]]

\* if df["FG3_PCT"].max() <= 1: df["FG3_PCT"] = df["FG3_PCT"] * 100
NormalizeColumn(col) ==
  IF FloatLE(ColMax(col), ONE) THEN [k \in 1..Len(col) |-> col[k] * 100]
  ELSE col

Normalize(df) ==
  LET col == NormalizeColumn(Column(df, "FG3_PCT"))
  IN  [k \in 1..Len(df) |-> [df[k] EXCEPT !.FG3_PCT = col[k]]]

\* Float division a / b * 100 in fixed point.
PercentOf(a, b) ==
  IF b = 0 THEN (IF a = 0 THEN NaN ELSE Inf) ELSE (a * ONE * 100) \div b

Extend(r, more) ==
  [f \in DOMAIN r \cup DOMAIN more |-> IF f \in DOMAIN more THEN more[f] ELSE r[f]]

\* The four derived columns.
DeriveRow(r) ==
  Extend(r, [THREES_PER_GAME |-> r.FG3M,
             THREES_ATT_PER_GAME |-> r.FG3A,
             POINTS_FROM_3 |-> r.FG3M * 3,
             PERCENT_POINTS_3 |-> PercentOf(r.FG3M * 3, r.PTS)])

DeriveMetrics(df) == [k \in 1..Len(df) |-> DeriveRow(df[k])]

\* champs_df: one row per item of CHAMPIONS_DATA.
champs_df ==
  [k \in 1..Len(CHAMPIONS_ITEMS) |->
     [SEASON |-> CHAMPIONS_ITEMS[k][1], CHAMPION_TEAM |-> CHAMPIONS_ITEMS[k][2]]]

\* One left row joined on SEASON: one output row per matching right row, in
\* the right table's order; a single row with a null champion when none.
MergeRow(r, right) ==
  LET hits == SelectSeq(right, LAMBDA c : c.SEASON = r.SEASON)
  IN  IF hits = <<>> THEN << Extend(r, [CHAMPION_TEAM |-> NoTeam]) >>
      ELSE [k \in 1..Len(hits) |->
              Extend(r, [CHAMPION_TEAM |-> hits[k].CHAMPION_TEAM])]

RECURSIVE MergeLeft(_, _)
\* df.merge(right, on="SEASON", how="left")
MergeLeft(df, right) ==
  IF df = <<>> THEN <<>>
  ELSE MergeRow(Head(df), right) \o MergeLeft(Tail(df), right)

\* IsChampion with the team comparison left out.
IsChampionAnyTeam(r) == r.CHAMPION_TEAM # NoTeam

\* df["IS_CHAMPION"] = df["TEAM_NAME"] == df["CHAMPION_TEAM"]; a comparison
\* with a null champion is false.
IsChampion(r) == r.CHAMPION_TEAM # NoTeam /\ r.TEAM_NAME = r.CHAMPION_TEAM

FlagChampion(df) ==
  [k \in 1..Len(df) |-> Extend(df[k], [IS_CHAMPION |-> IsChampion(df[k])])]

\* load_dataset after the fetch loop: concat, keep, normalize, derive, merge.
BuildDataset(frames) ==
  FlagChampion(MergeLeft(DeriveMetrics(Normalize(Project(Concat(frames)))),
                         champs_df))

\* ---------------------------------------------------------- st.cache_data
\* A cache of one decorated function: key -> entry.  An entry holds the value,
\* the time it was stored and (for the properties only) whether it was stored
\* before the last cache clear.
NoEntry == [present |-> FALSE, at |-> 0, old |-> FALSE, value |-> << >>]

NoArgs == "()"

\* CacheHit with the ttl left out.
CacheHitNoTTL(entry, t) == entry.present

\* The entry's age is below ttl: @st.cache_data(ttl=60 * 60 * 24 * 7).
CacheHit(entry, t) == entry.present /\ t < entry.at + TTL

CacheStore(cache, key, value, t) ==
  [cache EXCEPT ![key] = [present |-> TRUE, at |-> t, old |-> FALSE, value |-> value]]

\* CacheClear as load_dataset.clear() would do it: the dataset cache only.
CacheClearDatasetOnly(cache) ==
  [key \in DOMAIN cache |-> IF key = NoArgs THEN NoEntry ELSE cache[key]]

\* st.cache_data.clear(): every entry of the cache is dropped.
CacheClear(cache) == [key \in DOMAIN cache |-> NoEntry]

\* For the properties: what a clear left behind was stored before it.
MarkOld(cache) == [key \in DOMAIN cache |-> [cache[key] EXCEPT !.old = cache[key].present]]

\* --------------------------------------------------------------- the views
\* sorted(df["SEASON"].unique(), reverse=True)
SeasonOptions(data) == {data[k].SEASON : k \in 1..Len(data)}

\* df[df["SEASON"] == selected_season]
SeasonRows(data, season) == SelectSeq(data, LAMBDA r : r.SEASON = season)

TeamOptions(rows) == {rows[k].TEAM_NAME : k \in 1..Len(rows)}

\* Float comparison a >= b.
FloatGE(a, b) == a # NaN /\ b # NaN /\ a >= b

\* FilterRows with an exclusive lower bound.
FilterRowsStrict(rows, teams, min_pct) ==
  SelectSeq(SelectSeq(rows, LAMBDA r : r.TEAM_NAME \in teams),
            LAMBDA r : FloatGE(r.FG3_PCT, min_pct * ONE + 1))

\* df_season[TEAM_NAME.isin(selected_teams)] then [FG3_PCT >= min_fg3_pct]
FilterRows(rows, teams, min_pct) ==
  SelectSeq(SelectSeq(rows, LAMBDA r : r.TEAM_NAME \in teams),
            LAMBDA r : FloatGE(r.FG3_PCT, min_pct * ONE))

\* f"{x:.1f}" followed by a suffix: "nan" for NaN, "inf" for infinity, else
\* the number rounded to one decimal.
FormatFloat(x, suffix) ==
  [text  |-> IF x = NaN THEN "nan" ELSE IF x = Inf THEN "inf" ELSE "number",
   value |-> IF x \in {NaN, Inf} THEN x ELSE ((x + 5) \div 10) * 10,
   suffix |-> suffix]

NotAvailable == [text |-> "N/A", value |-> NaN, suffix |-> ""]

\* DataFrame.head(n)
HeadRows(rows, n) == IF Len(rows) <= n THEN rows ELSE SubSeq(rows, 1, n)

\* render_metrics: the values of the four metric cards.
RenderMetrics(rows) ==
  LET avg_att   == ColMean(Column(rows, "THREES_ATT_PER_GAME"))
      avg_pct   == ColMean(Column(rows, "FG3_PCT"))
      champ_row == HeadRows(SelectSeq(rows, LAMBDA r : r.IS_CHAMPION), 1)
  IN  [c1 |-> FormatFloat(avg_att, ""),
       c2 |-> FormatFloat(avg_pct, "%"),
       c3 |-> IF champ_row # << >> THEN FormatFloat(champ_row[1].FG3_PCT, "%")
              ELSE NotAvailable,
       c4 |-> IF champ_row # << >> THEN FormatFloat(champ_row[1].PERCENT_POINTS_3, "%")
              ELSE NotAvailable]

RECURSIVE InsertSorted(_, _)
InsertSorted(sorted, r) ==
  IF sorted = << >> THEN << r >>
  ELSE IF r.THREES_PER_GAME < Head(sorted).THREES_PER_GAME
       THEN << r >> \o sorted
       ELSE << Head(sorted) >> \o InsertSorted(Tail(sorted), r)

RECURSIVE SortAscending(_)
\* sort_values("THREES_PER_GAME"): ascending and stable.
SortAscending(rows) ==
  IF rows = << >> THEN << >>
  ELSE InsertSorted(SortAscending(SubSeq(rows, 1, Len(rows) - 1)), rows[Len(rows)])

\* plot_top_bar: nlargest(10, ...) then sort_values(...), the chart's rows.
TopBar(rows) ==
  LET asc == SortAscending(rows)
  IN  IF Len(asc) <= 10 THEN asc ELSE SubSeq(asc, Len(asc) - 9, Len(asc))

\* df_display: the display columns renamed; the CSV has one line per row.
Display(rows) ==
  [k \in 1..Len(rows) |->
     [Time |-> rows[k].TEAM_NAME, Vitorias |-> rows[k].W, Derrotas |-> rows[k].L,
      TresPorJogo |-> rows[k].THREES_PER_GAME,
      TentativasPorJogo |-> rows[k].THREES_ATT_PER_GAME,
      TresPct |-> rows[k].FG3_PCT, PctPontos |-> rows[k].PERCENT_POINTS_3,
      Campeao |-> rows[k].IS_CHAMPION]]

\* ------------------------------------------------------------------- state
VARIABLES
  now,            \* the clock, in seconds
  pc,             \* where the script run is
  i,              \* load_dataset: index into SEASONS of the loop variable s
  frames,         \* load_dataset: the local list frames
  df,             \* main: the dataset load_dataset returned
  seasonCache,    \* cache of fetch_team_stats_for_season, keyed by season
  dsCache,        \* cache of load_dataset, keyed by its (empty) arguments
  view,           \* main: the selection, the filtered table and what is shown
  run,            \* history of the current run, for the properties
  failures,       \* number of provider failures so far
  raw, norm1, norm2, pstep   \* the normalization step applied on its own

vars == << now, pc, i, frames, df, seasonCache, dsCache, view, run, failures,
           raw, norm1, norm2, pstep >>

pipelineVars == << now, pc, i, frames, df, seasonCache, dsCache, view, run, failures >>

stepVars == << raw, norm1, norm2, pstep >>

SeasonSet == Range(SEASONS)

NoView ==
  [selected_season |-> "", selected_teams |-> {}, min_fg3_pct |-> 0,
   df_season |-> << >>, df_filtered |-> << >>,
   cards |-> [c1 |-> NotAvailable, c2 |-> NotAvailable,
              c3 |-> NotAvailable, c4 |-> NotAvailable],
   top |-> << >>, scatter |-> << >>, df_display |-> << >>, csv_rows |-> 0]

\* History of one script run.  kind: how load_dataset was answered; afterClear:
\* the run is the rerun that follows a cache clear; invoked / called: how often
\* the Fetcher / the provider was called per season; fetchedAt: when the
\* provider answered for the rows held per season; sleeps: pacing delays;
\* slept: a delay has passed since the last provider call; unpaced: two
\* provider calls followed each other without a delay; order: the seasons in
\* the order the Fetcher was invoked; staleServed: an entry stored before the
\* last clear was served; dsWritten: the run stored a dataset entry;
\* droppedLive: how many live entries the clear before this run dropped.
NoRun ==
  [kind |-> "none", afterClear |-> FALSE,
   invoked |-> [s \in SeasonSet |-> 0], called |-> [s \in SeasonSet |-> 0],
   fetchedAt |-> [s \in SeasonSet |-> 0 - 1],
   sleeps |-> 0, slept |-> TRUE, unpaced |-> FALSE, order |-> << >>,
   staleServed |-> FALSE, dsWritten |-> FALSE, droppedLive |-> 0]

ThresholdChoices == {0, 35, 40, 100}

Init ==
  /\ now = 0
  /\ pc = "idle"
  /\ i = 1
  /\ frames = << >>
  /\ df = << >>
  /\ seasonCache = [s \in SeasonSet |-> NoEntry]
  /\ dsCache = [k \in {NoArgs} |-> NoEntry]
  /\ view = NoView
  /\ run = NoRun
  /\ failures = 0
  /\ raw = << >> /\ norm1 = << >> /\ norm2 = << >> /\ pstep = "off"

\* ---------------------------------------------------------------- actions
LiveEntries ==
  Cardinality({s \in SeasonSet : CacheHit(seasonCache[s], now)})
  + Cardinality({k \in DOMAIN dsCache : CacheHit(dsCache[k], now)})

\* main reaches df = load_dataset() with the dataset cache dc: a live entry is
\* returned as it is; otherwise the body of load_dataset starts.
CallLoadDataset(dc, cleared) ==
  LET start == [NoRun EXCEPT !.afterClear = cleared,
                             !.droppedLive = IF cleared THEN LiveEntries ELSE 0] IN
  /\ i' = 1
  /\ frames' = << >>
  /\ view' = NoView
  /\ IF CacheHit(dc[NoArgs], now)
     THEN /\ pc' = "view"
          /\ df' = dc[NoArgs].value.df
          /\ run' = [start EXCEPT !.kind = "hit",
                                  !.fetchedAt = dc[NoArgs].value.fetchedAt,
                                  !.staleServed = dc[NoArgs].old]
     ELSE /\ pc' = "fetch"
          /\ df' = << >>
          /\ run' = [start EXCEPT !.kind = "miss"]

\* A user interaction other than the clear button: the script runs again.
Rerender ==
  /\ pc = "idle"
  /\ UNCHANGED << stepVars, now, seasonCache, dsCache, failures >>
  /\ CallLoadDataset(dsCache, FALSE)

\* The button "Atualizar dados (limpar cache)": st.cache_data.clear(), then
\* st.rerun(), whose run reaches load_dataset with the button not pressed.
ClickClear ==
  /\ pc = "idle"
  /\ seasonCache' = MarkOld(CacheClear(seasonCache))
  /\ dsCache' = MarkOld(CacheClear(dsCache))
  /\ UNCHANGED << stepVars, now, failures >>
  /\ CallLoadDataset(MarkOld(CacheClear(dsCache)), TRUE)

\* load_dataset: df_s = fetch_team_stats_for_season(s), through its cache;
\* on a hit frames.append(df_s), on a miss the provider is called.
FetchSeason ==
  /\ pc = "fetch"
  /\ LET s == SEASONS[i]
         e == seasonCache[s]
         r == [run EXCEPT !.invoked[s] = @ + 1, !.order = Append(@, s)]
     IN  IF CacheHit(e, now)
         THEN /\ frames' = Append(frames, e.value)
              /\ pc' = "sleep"
              /\ run' = [r EXCEPT !.fetchedAt[s] = e.at,
                                  !.staleServed = @ \/ e.old]
         ELSE /\ frames' = frames
              /\ pc' = "provider"
              /\ run' = [r EXCEPT !.called[s] = @ + 1,
                                  !.unpaced = @ \/ ~run.slept,
                                  !.slept = FALSE]
  /\ UNCHANGED << stepVars, now, i, df, seasonCache, dsCache, view, failures >>

\* The provider answers: the body of fetch_team_stats_for_season returns, its
\* result is cached and appended to frames.
ProviderReturn ==
  /\ pc = "provider"
  /\ LET s    == SEASONS[i]
         df_s == TagSeason(ProviderTable(s, now), s)
     IN  /\ seasonCache' = CacheStore(seasonCache, s, df_s, now)
         /\ frames' = Append(frames, df_s)
         /\ run' = [run EXCEPT !.fetchedAt[s] = now]
  /\ pc' = "sleep"
  /\ UNCHANGED << stepVars, now, i, df, dsCache, view, failures >>

\* ProviderFail with the call tried again instead of the exception passed on.
ProviderFailRetry ==
  /\ pc = "provider"
  /\ failures < MaxFailures
  /\ failures' = failures + 1
  /\ pc' = "provider"
  /\ run' = [run EXCEPT !.called[SEASONS[i]] = @ + 1]
  /\ UNCHANGED << stepVars, now, i, frames, df, seasonCache, dsCache, view >>

\* The provider fails: the exception leaves fetch_team_stats_for_season,
\* load_dataset and main; nothing is cached and the run is over.
ProviderFail ==
  /\ pc = "provider"
  /\ failures < MaxFailures
  /\ failures' = failures + 1
  /\ pc' = "failed"
  /\ frames' = << >>
  /\ UNCHANGED << stepVars, now, i, df, seasonCache, dsCache, view, run >>

\* Sleep with the delay only between two seasons, none after the last.
SleepBetweenOnly ==
  /\ pc = "sleep"
  /\ IF i < Len(SEASONS)
     THEN /\ i' = i + 1 /\ pc' = "fetch"
          /\ run' = [run EXCEPT !.sleeps = @ + 1, !.slept = TRUE]
     ELSE /\ i' = i /\ pc' = "aggregate"
          /\ run' = run
  /\ UNCHANGED << stepVars, now, frames, df, seasonCache, dsCache, view, failures >>

\* time.sleep(0.35) at the end of the loop body, then the next season or the
\* end of the loop.
Sleep ==
  /\ pc = "sleep"
  /\ run' = [run EXCEPT !.sleeps = @ + 1, !.slept = TRUE]
  /\ IF i < Len(SEASONS)
     THEN i' = i + 1 /\ pc' = "fetch"
     ELSE i' = i /\ pc' = "aggregate"
  /\ UNCHANGED << stepVars, now, frames, df, seasonCache, dsCache, view, failures >>

\* load_dataset after the loop: the dataset is built, returned and cached.
Aggregate ==
  /\ pc = "aggregate"
  /\ df' = BuildDataset(frames)
  /\ dsCache' = CacheStore(dsCache, NoArgs,
                           [df |-> df', fetchedAt |-> run.fetchedAt], now)
  /\ run' = [run EXCEPT !.dsWritten = TRUE]
  /\ pc' = "view"
  /\ UNCHANGED << stepVars, now, i, frames, seasonCache, view, failures >>

\* main after load_dataset with the widgets holding season, teams and min_pct:
\* the two filters and the views.
Show(season, teams, min_pct) ==
  LET df_season   == SeasonRows(df, season)
      df_filtered == FilterRows(df_season, teams, min_pct)
  IN  view' = [selected_season |-> season, selected_teams |-> teams,
               min_fg3_pct |-> min_pct, df_season |-> df_season,
               df_filtered |-> df_filtered,
               cards |-> RenderMetrics(df_filtered),
               top |-> TopBar(df_filtered),
               scatter |-> df_filtered,
               df_display |-> Display(df_filtered),
               csv_rows |-> Len(Display(df_filtered))]

\* The selectbox's options; without any season it yields no season.
SeasonChoices == IF SeasonOptions(df) = {} THEN {""} ELSE SeasonOptions(df)

\* sorted(..., reverse=True) with index=0: the latest season of the dataset.
DefaultSeason ==
  CHOOSE s \in SeasonChoices :
    \A t \in SeasonChoices : s = "" \/ SeasonIndex(t) <= SeasonIndex(s)

\* The page as first drawn: the widgets hold their defaults (latest season,
\* every team of it, minimum 0).
View ==
  /\ pc = "view"
  /\ Show(DefaultSeason, TeamOptions(SeasonRows(df, DefaultSeason)), 0)
  /\ pc' = "rendered"
  /\ UNCHANGED << stepVars, now, i, frames, df, seasonCache, dsCache, run, failures >>

\* The page drawn after the form was submitted with any selection.
ViewSelected ==
  /\ pc = "view"
  /\ \E season \in SeasonChoices :
       \E teams \in SUBSET TeamOptions(SeasonRows(df, season)) :
         \E min_pct \in ThresholdChoices :
           Show(season, teams, min_pct)
  /\ pc' = "rendered"
  /\ UNCHANGED << stepVars, now, i, frames, df, seasonCache, dsCache, run, failures >>

\* The script run is over (drawn, or ended by the exception): its locals are
\* gone, the caches stay.
EndRun ==
  /\ pc \in {"rendered", "failed"}
  /\ pc' = "idle"
  /\ i' = 1 /\ frames' = << >> /\ df' = << >> /\ view' = NoView /\ run' = NoRun
  /\ UNCHANGED << stepVars, now, seasonCache, dsCache, failures >>

\* Time passes between two script runs.  A tick is a third of the TTL or so
\* (days); a script run lasts seconds.
Tick ==
  /\ pc = "idle"
  /\ now < MaxTime * TickSeconds
  /\ now' = now + TickSeconds
  /\ UNCHANGED << stepVars, pc, i, frames, df, seasonCache, dsCache, view, run, failures >>

Next ==
  \/ Rerender
  \/ ClickClear
  \/ FetchSeason
  \/ ProviderReturn
  \/ ProviderFail
  \/ Sleep
  \/ Aggregate
  \/ View
  \/ EndRun
  \/ Tick

Spec == Init /\ [][Next]_vars

\* ------------------------------------------------ the views on their own
\* The filters and views applied to a dataset load_dataset can return: the
\* first k seasons answered by the provider at time t1, the others at t2 (one
\* time when no run failed, two when a failed run left its seasons cached).
Ticks == {t * TickSeconds : t \in 0..MaxTime}

DatasetAt(k, t1, t2) ==
  BuildDataset([j \in 1..Len(SEASONS) |->
                  TagSeason(ProviderTable(SEASONS[j], IF j <= k THEN t1 ELSE t2),
                            SEASONS[j])])

InitView ==
  /\ now = 0 /\ i = 1 /\ frames = << >>
  /\ seasonCache = [s \in SeasonSet |-> NoEntry]
  /\ dsCache = [k \in {NoArgs} |-> NoEntry]
  /\ view = NoView /\ run = NoRun /\ failures = 0
  /\ raw = << >> /\ norm1 = << >> /\ norm2 = << >> /\ pstep = "off"
  /\ pc = "view"
  /\ \E k \in 0..Len(SEASONS) : \E t1 \in Ticks : \E t2 \in Ticks :
       df = DatasetAt(k, t1, t2)

NextView == ViewSelected

SpecView == InitView /\ [][NextView]_vars

\* ------------------------------------- the normalization step on its own
PctChoices == {0, 1, 35, ONE, ONE + 1, 35 * ONE, 100 * ONE}

RECURSIVE ColumnsUpTo(_)
ColumnsUpTo(n) ==
  IF n = 0 THEN {<< >>}
  ELSE LET shorter == ColumnsUpTo(n - 1)
       IN  shorter \cup {Append(c, v) : c \in shorter, v \in PctChoices}

InitNorm ==
  /\ now = 0 /\ pc = "idle" /\ i = 1 /\ frames = << >> /\ df = << >>
  /\ seasonCache = [s \in SeasonSet |-> NoEntry]
  /\ dsCache = [k \in {NoArgs} |-> NoEntry]
  /\ view = NoView /\ run = NoRun /\ failures = 0
  /\ raw \in ColumnsUpTo(MaxRows)
  /\ norm1 = << >> /\ norm2 = << >> /\ pstep = "raw"

\* The normalization of load_dataset applied to the raw column.
NormalizeOnce ==
  /\ pstep = "raw"
  /\ norm1' = NormalizeColumn(raw)
  /\ pstep' = "once"
  /\ UNCHANGED << pipelineVars, raw, norm2 >>

\* The same step applied to its own result.
NormalizeAgain ==
  /\ pstep = "once"
  /\ norm2' = NormalizeColumn(norm1)
  /\ pstep' = "twice"
  /\ UNCHANGED << pipelineVars, raw, norm1 >>

NextNorm == NormalizeOnce \/ NormalizeAgain

SpecNorm == InitNorm /\ [][NextNorm]_vars

\* ================================================================ claims
RECURSIVE SumLen(_)
SumLen(fs) == IF fs = << >> THEN 0 ELSE Len(Head(fs)) + SumLen(Tail(fs))

\* Position in the dataset of row r of the k-th frame.
Offset(fs, k) == SumLen(SubSeq(fs, 1, k - 1))

Completed == pc \in {"view", "rendered"} /\ run.kind = "miss"

RawColumns == keep \ {"SEASON", "FG3_PCT"}

\* C1: when a run of load_dataset completes, the dataset has as many rows as the
\* ten per-season tables fetch_team_stats_for_season returned together, the
\* rows stand in SEASONS order and inside a season in the fetched order, and
\* each row's SEASON is the season it was fetched for.
C1_RowsPreserved ==
  Completed =>
    /\ Len(frames) = Len(SEASONS)
    /\ Len(df) = SumLen(frames)
    /\ \A k \in 1..Len(frames) : \A r \in 1..Len(frames[k]) :
         LET row == df[Offset(frames, k) + r]
         IN  /\ row.SEASON = SEASONS[k]
             /\ frames[k][r].SEASON = SEASONS[k]
             /\ \A f \in RawColumns : row[f] = frames[k][r][f]
             /\ row.FG3_PCT \in {frames[k][r].FG3_PCT, frames[k][r].FG3_PCT * 100}

\* C1 witness: a completed run whose seasons returned different numbers of
\* rows, one of them several.
C1_Witness ==
  /\ Completed
  /\ \E k \in 1..Len(frames) : Len(frames[k]) >= 2
  /\ \E k \in 1..Len(frames) : Len(frames[k]) = 0
  /\ Len(df) > Len(SEASONS)

ChampionRows(data, season) ==
  {k \in 1..Len(data) : data[k].SEASON = season /\ data[k].IS_CHAMPION}

Returned == pc \in {"view", "rendered"}

\* C2 as stated: in every dataset load_dataset returns, whatever the provider
\* answered, each season has zero or one row with IS_CHAMPION, and a row has
\* IS_CHAMPION only when its TEAM_NAME is CHAMPIONS_DATA[SEASON].
C2_Original ==
  Returned =>
    /\ \A s \in SeasonSet : Cardinality(ChampionRows(df, s)) <= 1
    /\ \A k \in 1..Len(df) :
         df[k].IS_CHAMPION => df[k].TEAM_NAME = CHAMPIONS_DATA[df[k].SEASON]

\* TEAM_NAME occurs once among the rows of its season.
UniqueTeams(data, season) ==
  \A j, k \in 1..Len(data) :
    (data[j].SEASON = season /\ data[k].SEASON = season
       /\ data[j].TEAM_NAME = data[k].TEAM_NAME) => j = k

\* C2 (amended): a row has IS_CHAMPION exactly when its TEAM_NAME is
\* CHAMPIONS_DATA[SEASON]; a season whose rows carry pairwise different team
\* names (one row per team, as the provider promises) has zero or one
\* champion row; a season has as many champion rows as the provider returned
\* rows for the champion.
C2_ChampionFlag ==
  Returned =>
    /\ \A k \in 1..Len(df) :
         df[k].IS_CHAMPION <=> df[k].TEAM_NAME = CHAMPIONS_DATA[df[k].SEASON]
    /\ \A s \in SeasonSet :
         UniqueTeams(df, s) => Cardinality(ChampionRows(df, s)) <= 1
    /\ Completed =>
         \A k \in 1..Len(frames) :
           Cardinality(ChampionRows(df, SEASONS[k]))
             = Cardinality({r \in 1..Len(frames[k]) :
                              frames[k][r].TEAM_NAME = CHAMPIONS_DATA[SEASONS[k]]})

\* C2 witness: a returned dataset with a season of several teams and exactly
\* one champion row, and a season with rows and no champion row.
C2_Witness ==
  /\ Returned
  /\ \E s \in SeasonSet :
       /\ UniqueTeams(df, s)
       /\ Cardinality(ChampionRows(df, s)) = 1
       /\ Len(SeasonRows(df, s)) >= 2
  /\ \E s \in SeasonSet :
       /\ SeasonRows(df, s) # << >>
       /\ ChampionRows(df, s) = {}

\* Both cache tiers hold no entry.
CachesEmpty ==
  (\A s \in SeasonSet : ~seasonCache[s].present) /\ ~dsCache[NoArgs].present

\* No entry of either tier was stored before the last clear.
NoOldEntry ==
  /\ \A s \in SeasonSet : ~(seasonCache[s].present /\ seasonCache[s].old)
  /\ ~(dsCache[NoArgs].present /\ dsCache[NoArgs].old)

\* The state right after the button was handled: load_dataset has started and
\* has not yet asked for a season.
JustCleared ==
  run.afterClear /\ pc = "fetch" /\ i = 1 /\ \A s \in SeasonSet : run.invoked[s] = 0

\* C3: after the cache-clear button both cache tiers are empty; the call of
\* load_dataset that follows asks the provider once for each of the ten
\* seasons before it returns a dataset; no entry stored before the clear is
\* served after it.
C3_ClearForcesRefetch ==
  /\ JustCleared => CachesEmpty
  /\ (run.afterClear /\ pc \in {"aggregate", "view", "rendered"}) =>
       /\ run.kind = "miss"
       /\ \A s \in SeasonSet : run.called[s] = 1
       /\ \A s \in SeasonSet : run.fetchedAt[s] = now
  /\ ~run.staleServed
  /\ NoOldEntry

\* C3 witness: the button was pressed with all eleven entries live, and the
\* run after it has fetched every season anew and returned.
C3_Witness ==
  /\ run.afterClear
  /\ run.droppedLive = Len(SEASONS) + 1
  /\ pc = "view"
  /\ \A s \in SeasonSet : run.called[s] = 1

\* The dataset entry is there and younger than the TTL.
DatasetLive == dsCache[NoArgs].present /\ now - dsCache[NoArgs].at < TTL

\* C4: a script run rebuilds the dataset exactly when the dataset entry is
\* absent, has reached the seven-day TTL, or the run follows a cache clear;
\* otherwise it returns the entry and never calls the provider.
C4_RebuildExactlyWhenStale ==
  /\ [][ (pc = "idle" /\ pc' # "idle") =>
           IF DatasetLive /\ ~run'.afterClear
           THEN /\ pc' = "view"
                /\ run'.kind = "hit"
                /\ df' = dsCache[NoArgs].value.df
                /\ UNCHANGED << seasonCache, dsCache >>
           ELSE /\ pc' = "fetch"
                /\ run'.kind = "miss" ]_vars
  /\ [](run.kind = "hit" =>
           /\ pc \in {"view", "rendered"}
           /\ \A s \in SeasonSet : run.called[s] = 0 /\ run.invoked[s] = 0)
  /\ [](run.kind = "miss" /\ pc \in {"aggregate", "view", "rendered"} =>
           \A s \in SeasonSet : run.invoked[s] = 1)

\* C4 witness: a re-render, some time after the dataset was stored, answered
\* from the cache.
C4_Witness ==
  /\ pc = "view"
  /\ run.kind = "hit"
  /\ now > dsCache[NoArgs].at
  /\ df # << >>

\* C4 second case: the entry has reached the TTL and the dataset is rebuilt.
C4_WitnessExpired ==
  /\ pc = "fetch"
  /\ ~run.afterClear
  /\ dsCache[NoArgs].present
  /\ now - dsCache[NoArgs].at >= TTL

\* C5: when the provider fails for a season the run ends there: the provider
\* was called once for that season, no later season is fetched, nothing is
\* cached for the failed season, no dataset entry is written, and main gets
\* no dataset.
C5_FailurePropagates ==
  /\ [][ failures' # failures =>
           /\ pc' = "failed"
           /\ UNCHANGED << seasonCache, dsCache, i >>
           /\ run'.called[SEASONS[i]] = 1 ]_vars
  /\ [][ pc = "failed" => (pc' = "idle" /\ UNCHANGED << seasonCache, dsCache >>) ]_vars
  /\ [](pc = "failed" =>
           /\ run.called[SEASONS[i]] = 1
           /\ \A k \in (i + 1)..Len(SEASONS) :
                run.invoked[SEASONS[k]] = 0 /\ run.called[SEASONS[k]] = 0
           /\ ~CacheHit(seasonCache[SEASONS[i]], now)
           /\ ~run.dsWritten
           /\ ~CacheHit(dsCache[NoArgs], now)
           /\ df = << >> /\ view = NoView)

\* C5 witness: the provider failed on the third season after answering for
\* the first two.
C5_Witness ==
  /\ pc = "failed"
  /\ i = 3
  /\ run.called[SEASONS[1]] = 1 /\ run.called[SEASONS[2]] = 1
  /\ CacheHit(seasonCache[SEASONS[2]], now)

LoopDone == run.kind = "miss" /\ pc \in {"aggregate", "view", "rendered"}

\* C9 as stated: seasons one after another in SEASONS order, the Fetcher once
\* per season, and a delay only between two calls and only after a provider
\* call: nine delays for ten seasons, none for a season answered from cache.
C9_Original ==
  /\ run.order = SubSeq(SEASONS, 1, Len(run.order))
  /\ \A s \in SeasonSet : run.invoked[s] <= 1
  /\ ~run.unpaced
  /\ LoopDone =>
       /\ run.sleeps <= Len(SEASONS) - 1
       /\ run.sleeps <= Cardinality({s \in SeasonSet : run.called[s] > 0})

\* C9 (amended): seasons are fetched one after another in SEASONS order, the
\* Fetcher is invoked once per season, the provider at most once per season
\* and only inside a Fetcher invocation, a delay lies between any two
\* provider calls, and one delay follows every Fetcher invocation, the last
\* one and the ones answered from cache included: ten delays for ten seasons.
C9_SequentialPaced ==
  /\ run.order = SubSeq(SEASONS, 1, Len(run.order))
  /\ \A s \in SeasonSet : run.invoked[s] <= 1 /\ run.called[s] <= run.invoked[s]
  /\ ~run.unpaced
  /\ pc \in {"fetch", "provider", "sleep"} =>
       /\ Len(run.order) = (IF pc = "fetch" THEN i - 1 ELSE i)
       /\ run.sleeps = i - 1
       /\ Len(frames) = (IF pc = "sleep" THEN i ELSE i - 1)
  /\ LoopDone =>
       /\ run.order = SEASONS
       /\ run.sleeps = Len(SEASONS)

\* C9 witness: a completed loop in which a season was answered from the
\* cache, another by the provider, with ten delays.
C9_Witness ==
  /\ pc = "aggregate"
  /\ run.sleeps = Len(SEASONS)
  /\ \E s \in SeasonSet : run.called[s] = 0
  /\ \E s \in SeasonSet : run.called[s] = 1

\* C10: a dataset load_dataset returns holds no rows the provider answered
\* more than the TTL before the return.
C10_Original ==
  Returned => \A s \in SeasonSet : now - run.fetchedAt[s] <= TTL

\* The rows of data that pass the three conditions, in data's order.
Passing(data, season, teams, min_pct) ==
  SelectSeq(data, LAMBDA r : /\ r.SEASON = season
                             /\ r.TEAM_NAME \in teams
                             /\ r.FG3_PCT >= min_pct * ONE)

\* C6: the filtered table is exactly the rows of the selected season, of the
\* selected teams, with FG3_PCT >= the threshold; with every team selected a
\* threshold of 0 gives the whole season and a threshold of 100 only rows
\* whose FG3_PCT is exactly 100.
C6_FilterInclusive ==
  pc = "rendered" =>
    LET season == view.selected_season
        all    == TeamOptions(SeasonRows(df, season))
    IN  /\ view.df_filtered
             = Passing(df, season, view.selected_teams, view.min_fg3_pct)
        /\ (view.selected_teams = all /\ view.min_fg3_pct = 0) =>
             view.df_filtered = SeasonRows(df, season)
        /\ (view.selected_teams = all /\ view.min_fg3_pct = 100) =>
             /\ \A k \in 1..Len(view.df_filtered) :
                  view.df_filtered[k].FG3_PCT = 100 * ONE
             /\ \A k \in 1..Len(df) :
                  (df[k].SEASON = season /\ df[k].FG3_PCT = 100 * ONE) =>
                    \E j \in 1..Len(view.df_filtered) : view.df_filtered[j] = df[k]

\* C6 witness: a threshold equal to a team's FG3_PCT keeps that team, and
\* drops another team of the season.
C6_Witness ==
  /\ pc = "rendered"
  /\ view.selected_teams = TeamOptions(SeasonRows(df, view.selected_season))
  /\ view.min_fg3_pct > 0
  /\ \E k \in 1..Len(view.df_filtered) :
       view.df_filtered[k].FG3_PCT = view.min_fg3_pct * ONE
  /\ Len(view.df_filtered) < Len(view.df_season)

\* C6 witness for the threshold 0: the whole season, a team at 0% included.
C6_WitnessZero ==
  /\ pc = "rendered"
  /\ view.min_fg3_pct = 0
  /\ view.df_filtered # << >>
  /\ view.df_filtered = view.df_season
  /\ \E k \in 1..Len(view.df_filtered) : view.df_filtered[k].FG3_PCT = 0

\* C7: the normalization applied again to a column it has already brought to
\* the 0-100 scale (maximum above 1) changes no value.
C7_NormalizeIdempotent ==
  (pstep = "twice" /\ ColMax(norm1) > ONE) => norm2 = norm1

\* C7 witness: a column of fractions was multiplied by 100 the first time and
\* left alone the second time.
C7_Witness ==
  /\ pstep = "twice"
  /\ Len(raw) >= 2
  /\ norm1 # raw
  /\ ColMax(norm1) > ONE
  /\ \E k \in 1..Len(norm1) : norm1[k] <= ONE
  /\ norm2 = norm1

\* C8: with an empty filtered table the champion cards show "N/A", the two
\* league-average cards show an empty or "N/A" value, and the ranking, the
\* scatter, the table and the CSV have no rows.
C8_Original ==
  (pc = "rendered" /\ view.df_filtered = << >>) =>
    /\ view.cards.c3.text = "N/A"
    /\ view.cards.c4.text = "N/A"
    /\ view.cards.c1.text \in {"", "N/A"}
    /\ view.cards.c2.text \in {"", "N/A"}
    /\ view.top = << >> /\ view.scatter = << >>
    /\ view.df_display = << >> /\ view.csv_rows = 0

\* What the code does show on an empty filtered table: "nan" and "nan%" on
\* the league-average cards, "N/A" on the champion cards, no rows elsewhere.
C8_EmptyShowsNan ==
  (pc = "rendered" /\ view.df_filtered = << >>) =>
    /\ view.cards.c3 = NotAvailable /\ view.cards.c4 = NotAvailable
    /\ view.cards.c1.text = "nan" /\ view.cards.c1.suffix = ""
    /\ view.cards.c2.text = "nan" /\ view.cards.c2.suffix = "%"
    /\ view.top = << >> /\ view.scatter = << >>
    /\ view.df_display = << >> /\ view.csv_rows = 0

====
